---- MODULE Spec2Model ----
(***************************************************************************)
(* A model of galerts (src/galerts2.py, src/galerts.py): the decoder of    *)
(* the positional window.STATE blob, the encoder of alert payloads, the    *)
(* GoogleAlertsManager operations and the GAlertsManager facade.           *)
(*                                                                         *)
(* JSON values are tagged records, so that None, numbers, strings and      *)
(* lists can sit at the same position of a blob and be compared:           *)
(*   JNull, JInt(n), JStr(s), JArr(<<...>>), and JText(name, len, enc) for *)
(* a query text, which carries its length (QUERY_MAXLEN is 2048) and its   *)
(* Python 2 string kind ("unicode", "ascii" byte string, undecodable       *)
(* "bytes") instead of its characters.                                     *)
(* Python list indices are 0-based: PyGet(a, i) is a[i].                   *)
(***************************************************************************)
EXTENDS Integers, Sequences, FiniteSets, TLC

VARIABLES mgr, objs, held, falerts, call

vars == <<mgr, objs, held, falerts, call>>

\* ------------------------------------------------------------- bounds
\* The longest list the caller grows the list it was handed to; twice as
\* many Alert objects can be alive (the manager's and the caller's).
MaxAlerts == 2

\* ------------------------------------------------------------- JSON values
JNull == [t |-> "null"]

JInt(n) == [t |-> "int", v |-> n]

JStr(s) == [t |-> "str", v |-> s]

JArr(s) == [t |-> "arr", v |-> s]

JText(name, len, enc) == [t |-> "text", v |-> name, len |-> len, enc |-> enc]

IsStr(a) == a.t \in {"str", "text"}

Min(a, b) == IF a < b THEN a ELSE b

\* The first exception of a sequence of steps, "none" when none raises.
FirstExc(es) ==
    IF \E i \in 1..Len(es) : es[i] # "none"
    THEN es[CHOOSE i \in 1..Len(es) :
                es[i] # "none" /\ \A j \in 1..(i - 1) : es[j] = "none"]
    ELSE "none"

\* a[i] of Python: what it raises.  (No blob here has a string where a list
\* is indexed.)
PyIndexExc(a, i) ==
    IF a.t = "arr"
    THEN (IF i < Len(a.v) THEN "none" ELSE "IndexError")
    ELSE "TypeError"

\* a[i] of Python: its value (JNull where it raises; the exception decides).
PyGet(a, i) == IF PyIndexExc(a, i) = "none" THEN a.v[i + 1] ELSE JNull

\* (v1, ..., vn) = a[lo:hi] of Python: what it raises.
PyUnpackSliceExc(a, lo, hi, n) ==
    IF a.t # "arr" THEN "TypeError"
    ELSE IF (IF Min(hi, Len(a.v)) > lo THEN Min(hi, Len(a.v)) - lo ELSE 0) # n
         THEN "ValueError"
         ELSE "none"

\* 'literal' + a + ... of Python: what it raises.
PyConcatExc(a) == IF IsStr(a) THEN "none" ELSE "TypeError"

\* for e in a of Python: what it raises.
PyIterExc(a) == IF a.t = "arr" THEN "none" ELSE "TypeError"

\* ------------------------------------------------------------- registry
Sources_Automatic == 0

Sources_Blogs == 1

Sources_News == 2

Sources_Web == 3

Sources_Video == 5

Sources_Books == 6

Sources_Discussions == 7

Volumes_AllResults == 2

Volumes_BestResults == 3

DeliveryTypes_Email == 1

DeliveryTypes_Feed == 2

Frequencies_AsItHappens == 1

Frequencies_OnceADay == 2

Frequencies_OnceAWeek == 3

\* AlertParameter.values of the four registries (value -> name).
Sources_values ==
    (Sources_Automatic :> "Automatic") @@ (Sources_Blogs :> "Blogs")
    @@ (Sources_News :> "News") @@ (Sources_Web :> "Web")
    @@ (Sources_Video :> "Video") @@ (Sources_Books :> "Books")
    @@ (Sources_Discussions :> "Discussions")

Volumes_values ==
    (Volumes_AllResults :> "All results")
    @@ (Volumes_BestResults :> "Only the best results")

DeliveryTypes_values ==
    (DeliveryTypes_Email :> "email") @@ (DeliveryTypes_Feed :> "RSS feed")

Frequencies_values ==
    (Frequencies_AsItHappens :> "As-it-happens")
    @@ (Frequencies_OnceADay :> "At most once a day")
    @@ (Frequencies_OnceAWeek :> "At most once a week")

\* AlertParameter.getName: the name of a known value, None otherwise.
getName(values, value) ==
    IF value.t = "int" /\ value.v \in DOMAIN values
    THEN JStr(values[value.v])
    ELSE JNull

_REGION == "US"

_REGION_DOMAIN == "com"

_GOOGLE_DOMAIN == "google." \o _REGION_DOMAIN

\* ------------------------------------------------------------- decoder
\* Account.__init__
Account_init(account_data) ==
    [exc |-> FirstExc(<<PyIndexExc(account_data, 2), PyIndexExc(account_data, 3),
                        PyIndexExc(account_data, 5), PyIndexExc(account_data, 14)>>),
     val |-> [email         |-> PyGet(account_data, 2),
              delivery_data |-> PyGet(account_data, 3),
              language      |-> PyGet(account_data, 5),
              account_id    |-> PyGet(account_data, 14)]]

\* A feed URL with the feed id before the account id.
FeedUrlSwapped(account_id, feed_id) ==
    JStr("https://www." \o _GOOGLE_DOMAIN \o "/alerts/feeds/"
         \o feed_id.v \o "/" \o account_id.v)

\* The feed URL of a feed alert.
FeedUrl(account_id, feed_id) ==
    JStr("https://www." \o _GOOGLE_DOMAIN \o "/alerts/feeds/"
         \o account_id.v \o "/" \o feed_id.v)

\* Alert.__init__ of galerts2: the first exception its steps raise.
Alert_exc(alert_state) ==
    LET alert_data     == PyGet(alert_state, 2)
        query_info     == PyGet(alert_data, 3)
        delivery_infos == PyGet(alert_data, 6)
        delivery_info  == PyGet(delivery_infos, 0)
        isFeed         == PyGet(delivery_info, 1) = JInt(DeliveryTypes_Feed)
    IN  FirstExc(<<
            PyIndexExc(alert_state, 1),
            PyIndexExc(alert_state, 3),
            PyIndexExc(alert_state, 2),
            PyUnpackSliceExc(alert_data, 3, 7, 4),
            PyIndexExc(query_info, 1),
            PyIndexExc(query_info, 3), PyIndexExc(PyGet(query_info, 3), 1),
            PyIndexExc(query_info, 3), PyIndexExc(PyGet(query_info, 3), 2),
            PyIndexExc(delivery_infos, 0),
            PyIndexExc(delivery_info, 4),
            PyIndexExc(delivery_info, 1),
            PyIndexExc(delivery_info, 2),
            IF isFeed THEN PyIndexExc(delivery_info, 11) ELSE "none",
            IF isFeed THEN PyConcatExc(PyGet(alert_state, 3)) ELSE "none",
            IF isFeed THEN PyConcatExc(PyGet(delivery_info, 11)) ELSE "none" >>)

\* Alert.__init__ of galerts2: the attributes it sets, given its exception e.
Alert_attrs(alert_state, e) ==
    LET alert_data    == PyGet(alert_state, 2)
        query_info    == PyGet(alert_data, 3)
        delivery_info == PyGet(PyGet(alert_data, 6), 0)
        isFeed        == PyGet(delivery_info, 1) = JInt(DeliveryTypes_Feed)
    IN  [alert_id   |-> PyGet(alert_state, 1),
         account_id |-> PyGet(alert_state, 3),
         query      |-> PyGet(query_info, 1),
         language   |-> PyGet(PyGet(query_info, 3), 1),
         region     |-> PyGet(PyGet(query_info, 3), 2),
         sources    |-> PyGet(alert_data, 4),
         volume     |-> PyGet(alert_data, 5),
         frequency  |-> PyGet(delivery_info, 4),
         delivery   |-> PyGet(delivery_info, 1),
         email      |-> PyGet(delivery_info, 2),
         feed_id    |-> IF isFeed THEN PyGet(delivery_info, 11) ELSE JNull,
         feed_url   |-> IF isFeed /\ e = "none"
                        THEN FeedUrl(PyGet(alert_state, 3), PyGet(delivery_info, 11))
                        ELSE JNull]

\* Alert.__init__ of galerts2: [exc, val].
Alert_init(alert_state) ==
    [exc |-> Alert_exc(alert_state),
     val |-> Alert_attrs(alert_state, Alert_exc(alert_state))]

\* [ Alert(alert_data) for alert_data in alerts ]: each record's [exc, val].
DecodeAlerts(alerts) ==
    [i \in 1..(IF alerts.t = "arr" THEN Len(alerts.v) ELSE 0) |-> Alert_init(alerts.v[i])]

\* Account(account_data) for account_data in accounts_list: each [exc, val].
DecodeAccounts(accounts_list) ==
    [i \in 1..(IF accounts_list.t = "arr" THEN Len(accounts_list.v) ELSE 0) |->
        Account_init(accounts_list.v[i])]

\* self.accounts of WindowState: self.accounts[account.email] = account for
\* each decoded account (a later record replaces an earlier one of the same
\* email).
AccountsDict(accs) ==
    [e \in {accs[i].val.email : i \in 1..Len(accs)} |->
        accs[CHOOSE i \in 1..Len(accs) :
                accs[i].val.email = e
                /\ \A j \in (i + 1)..Len(accs) : accs[j].val.email # e].val]

\* WindowState.__init__: the first exception its steps raise, given the
\* decoded alert and account records.
WindowState_exc(window_state, alerts, accounts) ==
    FirstExc(
        <<PyIndexExc(window_state, 3), PyIndexExc(window_state, 1)>>
        \o (IF PyGet(window_state, 1) # JNull
            THEN <<PyIndexExc(PyGet(window_state, 1), 1),
                   PyIterExc(PyGet(PyGet(window_state, 1), 1))>>
                 \o [i \in 1..Len(alerts) |-> alerts[i].exc]
            ELSE <<>>)
        \o <<PyIndexExc(window_state, 2), PyIndexExc(PyGet(window_state, 2), 6),
             PyIterExc(PyGet(PyGet(window_state, 2), 6))>>
        \o [i \in 1..Len(accounts) |-> accounts[i].exc])

\* A window state whose alerts are in the reverse order of their records.
WindowState_attrs_reversed(window_state, alerts, accounts) ==
    [x        |-> PyGet(window_state, 3),
     alerts   |-> IF PyGet(window_state, 1) # JNull
                  THEN [i \in 1..Len(alerts) |-> alerts[Len(alerts) + 1 - i].val]
                  ELSE <<>>,
     accounts |-> AccountsDict(accounts)]

\* WindowState.__init__: the attributes it sets.
WindowState_attrs(window_state, alerts, accounts) ==
    [x        |-> PyGet(window_state, 3),
     alerts   |-> IF PyGet(window_state, 1) # JNull
                  THEN [i \in 1..Len(alerts) |-> alerts[i].val]
                  ELSE <<>>,
     accounts |-> AccountsDict(accounts)]

\* WindowState.__init__, given the decoded records: [exc, val].
WindowState_build(window_state, alerts, accounts) ==
    [exc |-> WindowState_exc(window_state, alerts, accounts),
     val |-> IF WindowState_exc(window_state, alerts, accounts) # "none" THEN JNull
             ELSE WindowState_attrs(window_state, alerts, accounts)]

\* WindowState.__init__: [exc, val].
WindowState_init(window_state) ==
    WindowState_build(window_state,
                      DecodeAlerts(PyGet(PyGet(window_state, 1), 1)),
                      DecodeAccounts(PyGet(PyGet(window_state, 2), 6)))

\* ------------------------------------------------------------- encoder
\* A weekday left in the numbering of the calendar.
GoogleWeekdayUnshifted(weekday) == weekday % 7

\* (utcnow.weekday() + 1) % 7
GoogleWeekday(weekday) == (weekday + 1) % 7

\* A delivery block that carries the weekday for every frequency but
\* as-it-happens.
DeliveryBlockWithWeekday(freq, utcnow) ==
    IF freq # JInt(Frequencies_AsItHappens)
    THEN JArr(<<JNull, JNull, JInt(utcnow.hour), JInt(GoogleWeekday(utcnow.weekday))>>)
    ELSE JNull

\* delivery_block of _create_alert_data; utcnow is [hour, weekday].
DeliveryBlock(freq, utcnow) ==
    IF freq # JInt(Frequencies_AsItHappens)
    THEN JArr(<<JNull, JNull, JInt(utcnow.hour)>>
              \o (IF freq = JInt(Frequencies_OnceAWeek)
                  THEN <<JInt(GoogleWeekday(utcnow.weekday))>> ELSE <<>>))
    ELSE JNull

\* A check that lets every list of sources through.
SourcesCheckMissing(sources) == "none"

\* if sources is not None: if Sources.Automatic in sources: raise ValueError
SourcesCheckExc(sources) ==
    IF sources # JNull
    THEN (IF sources.t # "arr" THEN "TypeError"
          ELSE IF \E i \in 1..Len(sources.v) : sources.v[i] = JInt(Sources_Automatic)
               THEN "ValueError" ELSE "none")
    ELSE "none"

\* A flag that goes by the value of the region: 0 for the default region too.
RegionFlagByValue(region) == IF region = JNull \/ region = JStr(_REGION) THEN 0 ELSE 1

\* 0 if region is None else 1
RegionFlag(region) == IF region = JNull THEN 0 ELSE 1

\* The check and the alert_data list of _create_alert_data: [exc, val].
alert_data_list(account, query, sources, delivery, freq, vol, lang, region, utcnow) ==
    [exc |-> SourcesCheckExc(sources),
     val |-> JArr(<<
        JNull, JNull, JNull,
        JArr(<<JNull,
               query,
               JStr(_REGION_DOMAIN),
               JArr(<<JNull, lang, IF region # JNull THEN region ELSE JStr(_REGION)>>),
               JNull, JNull, JNull,
               JInt(RegionFlag(region)),
               JInt(1)>>),
        sources,
        vol,
        JArr(<<JArr(<<JNull,
                      delivery,
                      IF delivery = JInt(DeliveryTypes_Email) THEN account.email ELSE JStr(""),
                      DeliveryBlock(freq, utcnow),
                      freq,
                      account.language,
                      JNull, JNull, JNull, JNull, JNull,
                      JStr("0"),
                      JNull, JNull,
                      account.account_id>>)>>)>>)]

\* An encoder that writes the region where the language belongs, and the
\* language where the region belongs.
create_alert_data_swapped(account, query, sources, delivery, freq, vol, lang, region, utcnow) ==
    alert_data_list(account, query, sources, delivery, freq, vol, region, lang, utcnow)

\* GoogleAlertsManager._create_alert_data; account is self.account.
create_alert_data(account, query, sources, delivery, freq, vol, lang, region, utcnow) ==
    alert_data_list(account, query, sources, delivery, freq, vol, lang, region, utcnow)

\* ------------------------------------------------------------- the service
\* A page of the service: the status of the response and the script texts of
\* its body.  A script text either assigns window.STATE (assigns) or not; the
\* text after the "=" is JSON (rhs.ok) of value rhs.value, or not JSON.
Script(assigns, ok, value) ==
    [assigns |-> assigns, rhs |-> [ok |-> ok, value |-> value]]

Page(status, body) == [status |-> status, body |-> body]

\* soup.find('script', text=re.compile(r'window\.STATE\s*=')): the first
\* script text the pattern matches, None when there is none.
soup_find(body) ==
    IF \E i \in 1..Len(body) : body[i].assigns
    THEN [t |-> "script",
          string |-> body[CHOOSE i \in 1..Len(body) :
                            body[i].assigns /\ \A j \in 1..(i - 1) : ~body[j].assigns]]
    ELSE JNull

\* re.search(r'window\.STATE\s*=\s*(.*)', script.string): the pattern is the
\* one of soup_find followed by \s*(.*), which matches whatever follows.
re_search(string) ==
    IF string.assigns THEN [t |-> "match", group1 |-> string.rhs] ELSE JNull

\* script.string of a script found, None.string otherwise (AttributeError).
MatchOf(script) == IF script = JNull THEN JNull ELSE re_search(script.string)

\* JSONDecoder().raw_decode(state_value_string)[0], then WindowState(...).
StateOf(match) ==
    IF match # JNull /\ match.group1.ok
    THEN WindowState_init(match.group1.value)
    ELSE [exc |-> "none", val |-> JNull]

\* The first exception the steps of _refresh_window_state raise.
refresh_exc(email, page, script, match, ws) ==
    FirstExc(<<
        IF page.status # 200 THEN "UnexpectedResponseError" ELSE "none",
        IF script = JNull THEN "AttributeError" ELSE "none",
        IF match = JNull THEN "ParseFailureError" ELSE "none",
        IF ~(match # JNull /\ match.group1.ok) THEN "ValueError" ELSE "none",
        ws.exc,
        IF ws.val # JNull /\ JStr(email) \notin DOMAIN ws.val.accounts
        THEN "KeyError" ELSE "none" >>)

\* self.window_state is assigned before self.account is looked up.
refresh_outcome(email, ws, e) ==
    [exc         |-> e,
     ws_set      |-> e \in {"none", "KeyError"},
     ws          |-> ws.val,
     account_set |-> e = "none",
     account     |-> IF e = "none" THEN ws.val.accounts[JStr(email)] ELSE JNull]

refresh_steps(email, page, script, match, ws) ==
    refresh_outcome(email, ws, refresh_exc(email, page, script, match, ws))

\* GoogleAlertsManager._refresh_window_state on the page the service answers
\* with: the exception raised ("none": it returns) and the assignments made
\* to self.window_state and self.account before it (ws_set, account_set).
\* The decoded alerts are values here; the caller gives them identities.
refresh_window_state(email, page) ==
    refresh_steps(email, page, soup_find(page.body),
                  MatchOf(soup_find(page.body)),
                  StateOf(MatchOf(soup_find(page.body))))

\* ------------------------------------------------------------- objects
\* Alert objects have identities (oids): the manager's window_state.alerts
\* and the lists handed to the caller hold the same objects.
Oids == 1..(2 * MaxAlerts)

\* The i-th smallest oid outside keep.
Alloc(keep, i) ==
    CHOOSE o \in Oids \ keep : Cardinality({p \in Oids \ keep : p < o}) = i - 1

Range(s) == {s[i] : i \in 1..Len(s)}

\* The list itself, not a copy of it.
ListAlias(alerts) == [alias |-> TRUE, items |-> alerts]

\* self.window_state.alerts[:], a new list of the same objects.  A held list
\* is [alias, items]: alias says the caller holds the manager's own list.
ListCopy(alerts) == [alias |-> FALSE, items |-> alerts]

HeldItems(h, m) == IF h.alias THEN m.window_state.alerts ELSE h.items

\* A manager that takes its token at construction and keeps it.
MgrAfterStaleToken(m, r, keep) ==
    IF ~r.ws_set THEN m
    ELSE [m EXCEPT
            !.window_state =
                [x        |-> IF m.window_state = JNull THEN r.ws.x
                              ELSE m.window_state.x,
                 alerts   |-> [i \in 1..Len(r.ws.alerts) |-> Alloc(keep, i)],
                 accounts |-> r.ws.accounts],
            !.account = IF r.account_set THEN r.account ELSE @]

\* The manager after a refresh of outcome r, its new Alert objects named by
\* the oids outside keep.
MgrAfter(m, r, keep) ==
    IF ~r.ws_set THEN m
    ELSE [m EXCEPT
            !.window_state =
                [x        |-> r.ws.x,
                 alerts   |-> [i \in 1..Len(r.ws.alerts) |-> Alloc(keep, i)],
                 accounts |-> r.ws.accounts],
            !.account = IF r.account_set THEN r.account ELSE @]

\* The heap after a refresh of outcome r: the objects of keep stay, the
\* manager's former alerts that nobody else holds are gone.
ObjsAfter(r, keep) ==
    IF ~r.ws_set THEN objs
    ELSE LET n == Len(r.ws.alerts)
             new == {Alloc(keep, i) : i \in 1..n}
         IN  [o \in keep \cup new |->
                IF o \in keep THEN objs[o]
                ELSE r.ws.alerts[CHOOSE i \in 1..n : Alloc(keep, i) = o]]

\* What the caller sees of a call: the operation, the exception it raised
\* ("none": it returned), the GETs (gets) and POSTs (posts) it sent, the page
\* the service answered its GET with, its argument, what it read of the
\* clock and (for the encoder and the decoder) what it returned.  NoCall: no
\* call has been made, or the caller has moved on.
NoCall == [op |-> "none", exc |-> "none", gets |-> 0, posts |-> <<>>,
           page |-> JNull, arg |-> JNull, clock |-> JNull, ret |-> JNull]

\* GoogleAlertsManager.__init__ appends "@gmail.com" to an email without "@".
\* An email argument is [s, at]: its text and whether it holds an "@".
NormalizeEmail(email) == IF email.at THEN email.s ELSE email.s \o "@gmail.com"

\* The oids the manager, the caller's list and the facade alerts refer to.
Reach(m, h, fa) ==
    (IF m.constructed THEN Range(m.window_state.alerts) ELSE {})
    \cup (IF h.alias THEN {} ELSE Range(h.items))
    \cup {fa[i].new_alert : i \in 1..Len(fa)}

Restrict(o, keep) == [p \in (DOMAIN o) \cap keep |-> o[p]]

\* The caller's list after a refresh: a caller holding the manager's former
\* list object keeps that list.
HeldAfter(h, m, r) ==
    IF r.ws_set /\ h.alias THEN [alias |-> FALSE, items |-> m.window_state.alerts]
    ELSE h

\* ------------------------------------------------------------- requests
\* A POST: the path and the x of its URL and the value of its params field
\* (json.dumps(params), held as the JSON value it writes).
Request(path, x, params) == [path |-> path, x |-> x, params |-> params]

\* What _create_alert_data reads of datetime.utcnow(): nothing for
\* as-it-happens, the hour otherwise, and the weekday for a weekly alert.
ClockRead(freq, utcnow) ==
    IF freq = JInt(Frequencies_AsItHappens) THEN JNull
    ELSE IF freq = JInt(Frequencies_OnceAWeek)
         THEN [t |-> "clock", hour |-> utcnow.hour, weekday |-> utcnow.weekday]
         ELSE [t |-> "clock", hour |-> utcnow.hour]

\* The frequency GoogleAlertsManager.create encodes: the default of the
\* delivery type when freq is None.
CreateFreq(delivery, freq) ==
    IF delivery = JInt(DeliveryTypes_Feed)
    THEN (IF freq = JNull THEN JInt(Frequencies_AsItHappens) ELSE freq)
    ELSE (IF freq = JNull THEN JInt(Frequencies_OnceADay) ELSE freq)

\* The check of GoogleAlertsManager.create on a feed's frequency.
CreateFeedCheckExc(delivery, freq) ==
    IF delivery = JInt(DeliveryTypes_Feed)
       /\ CreateFreq(delivery, freq) # JInt(Frequencies_AsItHappens)
    THEN "ValueError" ELSE "none"

\* A request without the token of the window state.
RequestTokenEmpty(m) == JStr("")

\* The x a request carries: self.window_state.x.
RequestToken(m) == m.window_state.x

\* params of GoogleAlertsManager.create
CreateParams(data) == JArr(<<JNull, data>>)

\* A modification sent in the envelope of a creation.
UpdateParamsNoId(alert, data) == JArr(<<JNull, data>>)

\* params of GoogleAlertsManager.update
UpdateParams(alert, data) == JArr(<<JNull, alert.alert_id, data>>)

\* params of GoogleAlertsManager.delete
DeleteParams(alert) == JArr(<<JNull, alert.alert_id>>)

\* The exception of a POST answered with status resp.
ResponseExc(resp) == IF resp # 200 THEN "UnexpectedResponseError" ELSE "none"

\* GoogleAlertsManager.create: the exception it raises, the POSTs it sends
\* and what it reads of the clock.  a is [query, sources, delivery, freq,
\* vol, lang, region].
create(m, a, utcnow, resp) ==
    LET freq == CreateFreq(a.delivery, a.freq)
        data == create_alert_data(m.account, a.query, a.sources, a.delivery,
                                  freq, a.vol, a.lang, a.region, utcnow)
        pre  == FirstExc(<<CreateFeedCheckExc(a.delivery, a.freq), data.exc>>)
    IN  [exc   |-> FirstExc(<<pre, ResponseExc(resp)>>),
         posts |-> IF pre = "none"
                   THEN <<Request("/alerts/create", RequestToken(m), CreateParams(data.val))>>
                   ELSE <<>>,
         clock |-> IF pre = "none" THEN ClockRead(freq, utcnow) ELSE JNull]

\* GoogleAlertsManager.update of the Alert object alert.
update(m, alert, utcnow, resp) ==
    LET data == create_alert_data(m.account, alert.query, alert.sources,
                                  alert.delivery, alert.frequency, alert.volume,
                                  alert.language, alert.region, utcnow)
    IN  [exc   |-> FirstExc(<<data.exc, ResponseExc(resp)>>),
         posts |-> IF data.exc = "none"
                   THEN <<Request("/alerts/modify", RequestToken(m),
                                  UpdateParams(alert, data.val))>>
                   ELSE <<>>,
         clock |-> IF data.exc = "none" THEN ClockRead(alert.frequency, utcnow)
                   ELSE JNull]

\* GoogleAlertsManager.delete of the Alert object alert.
delete(m, alert, resp) ==
    [exc   |-> ResponseExc(resp),
     posts |-> <<Request("/alerts/delete", RequestToken(m), DeleteParams(alert))>>,
     clock |-> JNull]

\* ------------------------------------------------------------- facade
QUERY_MAXLEN == 2048

DELIVER_TYPES == ("Email" :> DeliveryTypes_Email) @@ ("feed" :> DeliveryTypes_Feed)

ALERT_FREQS ==
    ("As-it-happens" :> Frequencies_AsItHappens)
    @@ ("Once a day" :> Frequencies_OnceADay)
    @@ ("Once a week" :> Frequencies_OnceAWeek)

ALERT_VOLS ==
    ("Only the best results" :> Volumes_BestResults)
    @@ ("All results" :> Volumes_AllResults)

ALERT_TYPES ==
    ("Everything" :> Sources_Automatic) @@ ("News" :> Sources_News)
    @@ ("Blogs" :> Sources_Blogs) @@ ("Realtime" :> Sources_Web)
    @@ ("Video" :> Sources_Video) @@ ("Discussions" :> Sources_Discussions)
    @@ ("Books" :> Sources_Books)

\* { v: k for (k, v) in d.items() }
Reverse(d) ==
    [v \in {d[k] : k \in DOMAIN d} |-> CHOOSE k \in DOMAIN d : d[k] = v]

DELIVER_TYPES_REV == Reverse(DELIVER_TYPES)

ALERT_FREQS_REV == Reverse(ALERT_FREQS)

ALERT_VOLS_REV == Reverse(ALERT_VOLS)

ALERT_TYPES_REV == Reverse(ALERT_TYPES)

\* d[key] of a dict keyed by numbers, key a decoded value: what it raises.
RevLookupExc(d, key) ==
    IF key.t = "arr" THEN "TypeError"
    ELSE IF key.t = "int" /\ key.v \in DOMAIN d THEN "none" ELSE "KeyError"

RevLookup(d, key) == IF RevLookupExc(d, key) = "none" THEN d[key.v] ELSE ""

\* d[name] of a dict keyed by names: what it raises.
LookupExc(d, name) == IF name \in DOMAIN d THEN "none" ELSE "KeyError"

\* The arguments GAlertsManager.alerts builds a facade Alert from: the first
\* exception they raise.
FacadeAlert_exc(new_alert) ==
    FirstExc(<<
        IF new_alert.sources # JNull THEN PyIndexExc(new_alert.sources, 0) ELSE "none",
        IF new_alert.sources # JNull
        THEN RevLookupExc(ALERT_TYPES_REV, PyGet(new_alert.sources, 0)) ELSE "none",
        RevLookupExc(ALERT_FREQS_REV, new_alert.frequency),
        RevLookupExc(ALERT_VOLS_REV, new_alert.volume),
        RevLookupExc(DELIVER_TYPES_REV, new_alert.delivery) >>)

\* The facade Alert GAlertsManager.alerts builds for the object oid.
FacadeAlert(email, new_alert, oid) ==
    [email     |-> email,
     s         |-> new_alert.alert_id,
     query     |-> new_alert.query,
     type      |-> IF new_alert.sources # JNull
                   THEN RevLookup(ALERT_TYPES_REV, PyGet(new_alert.sources, 0))
                   ELSE ALERT_TYPES_REV[Sources_Automatic],
     freq      |-> RevLookup(ALERT_FREQS_REV, new_alert.frequency),
     vol       |-> RevLookup(ALERT_VOLS_REV, new_alert.volume),
     deliver   |-> RevLookup(DELIVER_TYPES_REV, new_alert.delivery),
     feedurl   |-> new_alert.feed_url,
     new_alert |-> oid]

\* unicode(value) of a text that is not unicode: an ASCII byte string
\* decodes, another byte string raises UnicodeDecodeError.
ToUnicode(value) == [value EXCEPT !.enc = "unicode"]

\* Alert._query_set: what it raises.
query_set_exc(value) ==
    IF value.len > QUERY_MAXLEN THEN "ValueError"
    ELSE IF value.enc # "unicode" /\ value.enc # "ascii" THEN "ValueError"
         ELSE "none"

\* The dict a setter of a facade Alert checks its value against.
SetterDict(attr) ==
    CASE attr = "deliver" -> DELIVER_TYPES
      [] attr = "freq"    -> ALERT_FREQS
      [] attr = "vol"     -> ALERT_VOLS
      [] attr = "type"    -> ALERT_TYPES

\* Alert._query_set, _deliver_set, _freq_set, _vol_set, _type_set: what the
\* setter of attr raises on value.
setter_exc(attr, value) ==
    IF attr = "query" THEN query_set_exc(value)
    ELSE IF value \notin DOMAIN SetterDict(attr) THEN "ValueError" ELSE "none"

\* The value the setter of attr stores.
setter_value(attr, value) == IF attr = "query" THEN ToUnicode(value) ELSE value

\* sources of GAlertsManager.create and update: a one-element list, None for
\* Everything.
FacadeSources(type) ==
    IF ALERT_TYPES[type] # Sources_Automatic
    THEN JArr(<<JInt(ALERT_TYPES[type])>>) ELSE JNull

\* The arguments GAlertsManager.create passes to GoogleAlertsManager.create
\* (lang and region are left to their defaults).
FacadeCreateArgs(query, type, feed, freq, vol) ==
    [query    |-> query,
     sources  |-> FacadeSources(type),
     delivery |-> IF feed THEN JInt(DeliveryTypes_Feed) ELSE JInt(DeliveryTypes_Email),
     freq     |-> JInt(ALERT_FREQS[IF feed THEN "As-it-happens" ELSE freq]),
     vol      |-> JInt(ALERT_VOLS[vol]),
     lang     |-> JStr("en"),
     region   |-> JNull]

\* An update that does not copy the query.
FacadeStagedNoQuery(alert, new_alert) ==
    [new_alert EXCEPT
        !.delivery  = JInt(DELIVER_TYPES[alert.deliver]),
        !.sources   = IF ALERT_TYPES[alert.type] # Sources_Automatic
                      THEN JArr(<<JInt(ALERT_TYPES[alert.type])>>) ELSE JNull,
        !.volume    = JInt(ALERT_VOLS[alert.vol]),
        !.frequency = JInt(ALERT_FREQS[alert.freq])]

\* The assignments GAlertsManager.update makes to alert.new_alert.
FacadeStaged(alert, new_alert) ==
    [new_alert EXCEPT
        !.delivery  = JInt(DELIVER_TYPES[alert.deliver]),
        !.query     = alert.query,
        !.sources   = FacadeSources(alert.type),
        !.volume    = JInt(ALERT_VOLS[alert.vol]),
        !.frequency = JInt(ALERT_FREQS[alert.freq])]

\* ------------------------------------------------------------- inputs
MeEmail == "me@gmail.com"

EmailArgs == {[s |-> "me", at |-> FALSE], [s |-> MeEmail, at |-> TRUE]}

\* An account record of the blob: email, delivery settings, language and
\* account id at positions 2, 3, 5 and 14.
AccountRec(email, id) ==
    JArr(<<JNull, JNull, JStr(email), JArr(<<>>), JNull, JStr("en"),
           JNull, JNull, JNull, JNull, JNull, JNull, JNull, JNull, JStr(id)>>)

AccMe == AccountRec(MeEmail, "A1")

AccOther == AccountRec("other@gmail.com", "A9")

Q1 == JText("q1", 5, "unicode")

\* An alert record of the blob, as the service writes it.
SrvAlert(id, query, flag, sources, vol, delivery, email, block, freq, feed_id) ==
    JArr(<<JNull, JStr(id),
           JArr(<<JNull, JNull, JNull,
                  JArr(<<JNull, query, JStr("com"),
                         JArr(<<JNull, JStr("en"), JStr("US")>>),
                         JNull, JNull, JNull, JInt(flag), JInt(1)>>),
                  sources, vol,
                  JArr(<<JArr(<<JNull, delivery, email, block, freq, JStr("en"),
                                JNull, JNull, JNull, JNull, JNull,
                                feed_id, JNull, JNull, JStr("A1")>>)>>)>>),
           JStr("A1")>>)

\* An e-mail alert, once a day, on News.
SrvA ==
    SrvAlert("a1", Q1, 1, JArr(<<JInt(Sources_News)>>), JInt(Volumes_BestResults),
             JInt(DeliveryTypes_Email), JStr(MeEmail),
             JArr(<<JNull, JNull, JInt(7)>>), JInt(Frequencies_OnceADay), JStr("0"))

\* A feed alert on every source.
SrvB ==
    SrvAlert("a2", JText("q2", 9, "unicode"), 0, JNull, JInt(Volumes_AllResults),
             JInt(DeliveryTypes_Feed), JStr(""), JNull,
             JInt(Frequencies_AsItHappens), JStr("F2"))

\* A malformed alert record: its data stops before the delivery infos.
SrvBad ==
    JArr(<<JNull, JStr("a3"),
           JArr(<<JNull, JNull, JNull, JArr(<<JNull, Q1>>), JNull>>), JStr("A1")>>)

\* The blob of a session: token x, alerts container, accounts.
Blob(x, alerts_data, accounts) ==
    JArr(<<JNull, alerts_data,
           JArr(<<JNull, JNull, JNull, JNull, JNull, JNull, JArr(accounts)>>),
           JStr(x)>>)

\* The alerts container: null when there is no alert.
AlertsData(alerts) ==
    IF alerts = <<>> THEN JNull ELSE JArr(<<JNull, JArr(alerts)>>)

StatePage(blob) == Page(200, <<Script(FALSE, FALSE, JNull), Script(TRUE, TRUE, blob)>>)

PgEmpty == StatePage(Blob("x1", JNull, <<AccMe>>))

PgEmptyList == StatePage(Blob("x2", JArr(<<JNull, JArr(<<>>)>>), <<AccMe>>))

PgA == StatePage(Blob("x1", AlertsData(<<SrvA>>), <<AccMe>>))

PgB == StatePage(Blob("x2", AlertsData(<<SrvB>>), <<AccOther, AccMe>>))

\* A page of another account's session: the manager's email is not in it.
PgOther == StatePage(Blob("x2", AlertsData(<<SrvB>>), <<AccOther>>))

\* A good alert record followed by a malformed one.
PgBadAlert == StatePage(Blob("x1", AlertsData(<<SrvA, SrvBad>>), <<AccMe>>))

Pg500 == Page(500, <<>>)

\* No script of the page assigns window.STATE.
PgNoScript == Page(200, <<Script(FALSE, FALSE, JNull)>>)

\* The text assigned to window.STATE is not JSON.
PgBadJson == Page(200, <<Script(TRUE, FALSE, JNull)>>)

\* Blobs of the wrong arity, or with the wrong type at a required position.
PgShort == StatePage(JArr(<<JNull, JNull, JNull>>))

PgNoAccounts == StatePage(JArr(<<JNull, JNull, JNull, JStr("x1")>>))

PgBadAccount == StatePage(Blob("x1", JNull, <<JArr(<<JNull, JNull, JStr(MeEmail)>>)>>))

GoodPages == {PgEmpty, PgEmptyList, PgA, PgB}

BrokenPages ==
    {Pg500, PgNoScript, PgBadJson, PgShort, PgNoAccounts, PgBadAccount, PgBadAlert}

SamplePages == GoodPages \cup BrokenPages \cup {PgOther}

Hours == {0, 23}

Weekdays == 0..6

Clocks == [hour : Hours, weekday : Weekdays]

\* The clock readings of the manager specifications.
SampleClocks == {[hour |-> 23, weekday |-> 6], [hour |-> 0, weekday |-> 0]}

Statuses == {200, 500}

SigninOutcomes == {"none", "SignInError", "UnexpectedResponseError"}

\* ------------------------------------------------------------- actions
Init ==
    /\ mgr = [constructed |-> FALSE]
    /\ objs = <<>>
    /\ held = [alias |-> FALSE, items |-> <<>>]
    /\ falerts = <<>>
    /\ call = NoCall

Idle == call = NoCall

\* The caller moves on from the call it made.
Return ==
    /\ call # NoCall
    /\ call' = NoCall
    /\ UNCHANGED <<mgr, objs, held, falerts>>

\* The attributes __init__ sets before it signs in.
NewManager(kind, email) ==
    [constructed |-> TRUE, kind |-> kind, email |-> NormalizeEmail(email),
     window_state |-> JNull, account |-> JNull]

ConstructWith(kind, email, signin, page, r) ==
    /\ Idle /\ ~mgr.constructed
    /\ mgr' = IF signin = "none" /\ r.exc = "none"
              THEN MgrAfter(NewManager(kind, email), r, {}) ELSE mgr
    /\ objs' = IF signin = "none" /\ r.exc = "none" THEN ObjsAfter(r, {}) ELSE objs
    /\ call' = [NoCall EXCEPT !.op = "construct",
                              !.exc = FirstExc(<<signin, r.exc>>),
                              !.gets = IF signin = "none" THEN 1 ELSE 0,
                              !.page = IF signin = "none" THEN page ELSE JNull]
    /\ UNCHANGED <<held, falerts>>

\* GoogleAlertsManager.__init__ (kind "core") or GAlertsManager's inherited
\* one (kind "facade"): sign in, then the first refresh.  signin is the
\* exception of _signin.  A constructor that raises leaves no manager.
Construct(kind, email, signin, page) ==
    ConstructWith(kind, email, signin, page,
                  refresh_window_state(NormalizeEmail(email), page))

\* The oids the caller holds on to when a refresh replaces the manager's.
CallerOids ==
    Reach([constructed |-> FALSE], held, falerts)
    \cup (IF held.alias THEN Range(mgr.window_state.alerts) ELSE {})

AlertsWith(page, r, keep) ==
    /\ Idle /\ mgr.constructed /\ mgr.kind = "core"
    /\ mgr' = MgrAfter(mgr, r, keep)
    /\ objs' = ObjsAfter(r, keep)
    /\ held' = IF r.exc = "none"
               THEN ListCopy([i \in 1..Len(r.ws.alerts) |-> Alloc(keep, i)])
               ELSE HeldAfter(held, mgr, r)
    /\ call' = [NoCall EXCEPT !.op = "alerts", !.exc = r.exc, !.gets = 1,
                              !.page = page]
    /\ UNCHANGED falerts

AlertsRefreshed(page, r) ==
    AlertsWith(page, r, IF r.exc = "none" THEN {} ELSE CallerOids)

\* The alerts property of GoogleAlertsManager: refresh, then hand out a copy
\* of the list.  A property that raises hands out nothing.
Alerts(page) == AlertsRefreshed(page, refresh_window_state(mgr.email, page))

\* The caller appends to the list it was handed (here: its first element
\* again).  A list that is the manager's own changes the manager's.  The
\* call's arg is the manager's list as it was before.
CallerAppend ==
    LET items == HeldItems(held, mgr)
        more  == Append(items, items[1])
    IN  /\ Idle /\ mgr.constructed /\ mgr.kind = "core"
        /\ Len(items) \in 1..MaxAlerts
        /\ mgr' = IF held.alias THEN [mgr EXCEPT !.window_state.alerts = more] ELSE mgr
        /\ held' = IF held.alias THEN held ELSE [held EXCEPT !.items = more]
        /\ call' = [NoCall EXCEPT !.op = "caller_append",
                                  !.arg = mgr.window_state.alerts]
        /\ UNCHANGED <<objs, falerts>>

\* The caller removes the last element of the list it was handed.
CallerPop ==
    LET items == HeldItems(held, mgr)
        rest  == SubSeq(items, 1, Len(items) - 1)
        m1    == IF held.alias THEN [mgr EXCEPT !.window_state.alerts = rest] ELSE mgr
        h1    == IF held.alias THEN held ELSE [held EXCEPT !.items = rest]
    IN  /\ Idle /\ mgr.constructed /\ mgr.kind = "core"
        /\ Len(items) > 0
        /\ mgr' = m1
        /\ held' = h1
        /\ objs' = Restrict(objs, Reach(m1, h1, falerts))
        /\ call' = [NoCall EXCEPT !.op = "caller_pop",
                                  !.arg = mgr.window_state.alerts]
        /\ UNCHANGED falerts

\* The caller assigns an attribute of the i-th Alert object it holds
\* (galerts2.Alert has plain attributes).
CallerSet(i, attr, value) ==
    LET items == HeldItems(held, mgr)
    IN  /\ Idle /\ mgr.constructed /\ mgr.kind = "core"
        /\ i \in 1..Len(items)
        /\ objs' = [objs EXCEPT ![items[i]][attr] = value]
        /\ call' = [NoCall EXCEPT !.op = "caller_set", !.arg = items[i]]
        /\ UNCHANGED <<mgr, held, falerts>>

\* GoogleAlertsManager.create
Create(a, utcnow, resp) ==
    LET r == create(mgr, a, utcnow, resp)
    IN  /\ Idle /\ mgr.constructed /\ mgr.kind = "core"
        /\ call' = [NoCall EXCEPT !.op = "create", !.exc = r.exc, !.posts = r.posts,
                                  !.arg = a, !.clock = r.clock]
        /\ UNCHANGED <<mgr, objs, held, falerts>>

\* GoogleAlertsManager.update of the i-th Alert object the caller holds.
Update(i, utcnow, resp) ==
    LET items == HeldItems(held, mgr)
        r == update(mgr, objs[items[i]], utcnow, resp)
    IN  /\ Idle /\ mgr.constructed /\ mgr.kind = "core"
        /\ i \in 1..Len(items)
        /\ call' = [NoCall EXCEPT !.op = "update", !.exc = r.exc, !.posts = r.posts,
                                  !.arg = items[i], !.clock = r.clock]
        /\ UNCHANGED <<mgr, objs, held, falerts>>

\* GoogleAlertsManager.delete of the i-th Alert object the caller holds.
Delete(i, resp) ==
    LET items == HeldItems(held, mgr)
        r == delete(mgr, objs[items[i]], resp)
    IN  /\ Idle /\ mgr.constructed /\ mgr.kind = "core"
        /\ i \in 1..Len(items)
        /\ call' = [NoCall EXCEPT !.op = "delete", !.exc = r.exc, !.posts = r.posts,
                                  !.arg = items[i]]
        /\ UNCHANGED <<mgr, objs, held, falerts>>

\* list(gam.alerts) of GAlertsManager, given the refresh outcome r and the
\* exception e of the whole listing: the alerts property of the base class,
\* then a facade Alert for each decoded alert.  A listing that raises hands
\* out nothing.
FAlertsWith(page, r, e, keep) ==
    /\ Idle /\ mgr.constructed /\ mgr.kind = "facade"
    /\ mgr' = MgrAfter(mgr, r, keep)
    /\ objs' = ObjsAfter(r, keep)
    /\ falerts' = IF e = "none"
                  THEN [i \in 1..Len(r.ws.alerts) |->
                            FacadeAlert(mgr.email, r.ws.alerts[i], Alloc(keep, i))]
                  ELSE falerts
    /\ call' = [NoCall EXCEPT !.op = "falerts", !.exc = e, !.gets = 1, !.page = page]
    /\ UNCHANGED held

\* The exception of the facade's listing: the refresh's, else the first one
\* building a facade Alert raises.
FAlertsExc(r) ==
    IF r.exc # "none" THEN r.exc
    ELSE FirstExc([i \in 1..Len(r.ws.alerts) |-> FacadeAlert_exc(r.ws.alerts[i])])

FAlertsRefreshed(page, r) ==
    FAlertsWith(page, r, FAlertsExc(r), IF FAlertsExc(r) = "none" THEN {} ELSE CallerOids)

\* GAlertsManager.alerts, consumed by the caller (list(gam.alerts)).
FAlerts(page) == FAlertsRefreshed(page, refresh_window_state(mgr.email, page))

\* An assignment to the attribute attr of the i-th facade Alert.
FSet(i, attr, value) ==
    /\ Idle /\ mgr.constructed /\ mgr.kind = "facade"
    /\ i \in 1..Len(falerts)
    /\ falerts' = IF setter_exc(attr, value) = "none"
                  THEN [falerts EXCEPT ![i][attr] = setter_value(attr, value)]
                  ELSE falerts
    /\ call' = [NoCall EXCEPT !.op = "set", !.exc = setter_exc(attr, value),
                              !.arg = [i |-> i, attr |-> attr, value |-> value]]
    /\ UNCHANGED <<mgr, objs, held>>

FCreateWith(a, e, r) ==
    /\ Idle /\ mgr.constructed /\ mgr.kind = "facade"
    /\ call' = [NoCall EXCEPT !.op = "fcreate",
                              !.exc = IF e # "none" THEN e ELSE r.exc,
                              !.posts = IF e # "none" THEN <<>> ELSE r.posts,
                              !.arg = a,
                              !.clock = IF e # "none" THEN JNull ELSE r.clock]
    /\ UNCHANGED <<mgr, objs, held, falerts>>

\* The lookups of GAlertsManager.create in the facade's dicts.
FCreateLookupExc(a) ==
    FirstExc(<<LookupExc(ALERT_TYPES, a.type),
               LookupExc(ALERT_FREQS, IF a.feed THEN "As-it-happens" ELSE a.freq),
               LookupExc(ALERT_VOLS, a.vol)>>)

\* GAlertsManager.create; a is [query, type, feed, freq, vol].
FCreate(a, utcnow, resp) ==
    FCreateWith(a, FCreateLookupExc(a),
                IF FCreateLookupExc(a) = "none"
                THEN create(mgr, FacadeCreateArgs(a.query, a.type, a.feed, a.freq, a.vol),
                            utcnow, resp)
                ELSE JNull)

FUpdateWith(i, staged, r) ==
    /\ Idle /\ mgr.constructed /\ mgr.kind = "facade"
    /\ objs' = [objs EXCEPT ![falerts[i].new_alert] = staged]
    /\ call' = [NoCall EXCEPT !.op = "fupdate", !.exc = r.exc, !.posts = r.posts,
                              !.arg = [alert |-> falerts[i],
                                       before |-> objs[falerts[i].new_alert]],
                              !.clock = r.clock]
    /\ UNCHANGED <<mgr, held, falerts>>

FUpdateStaged(i, staged, utcnow, resp) ==
    FUpdateWith(i, staged, update(mgr, staged, utcnow, resp))

\* GAlertsManager.update of the i-th facade Alert the caller holds.
FUpdate(i, utcnow, resp) ==
    /\ i \in 1..Len(falerts)
    /\ FUpdateStaged(i, FacadeStaged(falerts[i], objs[falerts[i].new_alert]),
                     utcnow, resp)

FDeleteWith(i, r) ==
    /\ Idle /\ mgr.constructed /\ mgr.kind = "facade"
    /\ call' = [NoCall EXCEPT !.op = "fdelete", !.exc = r.exc, !.posts = r.posts,
                              !.arg = [alert |-> falerts[i],
                                       before |-> objs[falerts[i].new_alert]]]
    /\ UNCHANGED <<mgr, objs, held, falerts>>

\* GAlertsManager.delete of the i-th facade Alert the caller holds.
FDelete(i, resp) ==
    /\ i \in 1..Len(falerts)
    /\ FDeleteWith(i, delete(mgr, objs[falerts[i].new_alert], resp))

\* ------------------------------------------------------------- specification
\* The arguments of the create calls of the specification.
CreateArgs ==
    [query    : {Q1},
     sources  : {JNull, JArr(<<JInt(Sources_News), JInt(Sources_Video)>>),
                 JArr(<<JInt(Sources_News), JInt(Sources_Automatic)>>)},
     delivery : {JInt(DeliveryTypes_Email), JInt(DeliveryTypes_Feed)},
     freq     : {JNull, JInt(Frequencies_AsItHappens), JInt(Frequencies_OnceADay),
                 JInt(Frequencies_OnceAWeek)},
     vol      : {JInt(Volumes_BestResults)},
     lang     : {JStr("en")},
     region   : {JNull, JStr("US")}]

\* The attribute assignments of the caller of the specification.
CallerSets ==
    {<<"delivery", JInt(DeliveryTypes_Feed)>>,
     <<"frequency", JInt(Frequencies_OnceAWeek)>>,
     <<"sources", JArr(<<JInt(Sources_Automatic)>>)>>}

\* Query texts: of the longest length allowed, one longer, an ASCII byte
\* string of the longest length allowed and a byte string that is not ASCII.
QMax == JText("q3", QUERY_MAXLEN, "unicode")

QLong == JText("q4", QUERY_MAXLEN + 1, "unicode")

QAscii == JText("q5", QUERY_MAXLEN, "ascii")

QBytes == JText("q6", 3, "bytes")

\* The assignments to facade Alerts of the specification.
FacadeSets ==
    {<<"query", QAscii>>, <<"query", QLong>>, <<"query", QBytes>>,
     <<"type", "Everything">>, <<"type", "Images">>,
     <<"freq", "As-it-happens">>, <<"freq", "Once a day">>, <<"freq", "Once a week">>,
     <<"freq", "Hourly">>,
     <<"vol", "Only the best results">>, <<"vol", "Some results">>,
     <<"deliver", "Email">>, <<"deliver", "feed">>, <<"deliver", "sms">>}

\* The arguments of the facade's create calls of the specification.
FacadeCreates ==
    [query : {Q1, QMax, QLong},
     type  : {"Everything", "News"},
     feed  : BOOLEAN,
     freq  : {"As-it-happens", "Once a day", "Once a week"},
     vol   : {"Only the best results"}]

\* An alert of several sources, once a week.
SrvE ==
    SrvAlert("a5", Q1, 1, JArr(<<JInt(Sources_Blogs), JInt(Sources_Video)>>),
             JInt(Volumes_AllResults), JInt(DeliveryTypes_Email), JStr(MeEmail),
             JArr(<<JNull, JNull, JInt(7), JInt(0)>>), JInt(Frequencies_OnceAWeek),
             JStr("0"))

\* Alerts with a code the registry does not know: a volume, a source.
SrvD ==
    SrvAlert("a4", Q1, 1, JArr(<<JInt(Sources_News)>>), JInt(9),
             JInt(DeliveryTypes_Email), JStr(MeEmail),
             JArr(<<JNull, JNull, JInt(7)>>), JInt(Frequencies_OnceADay), JStr("0"))

SrvD2 ==
    SrvAlert("a6", Q1, 1, JArr(<<JInt(4)>>), JInt(Volumes_AllResults),
             JInt(DeliveryTypes_Feed), JStr(""), JNull,
             JInt(Frequencies_AsItHappens), JStr("F6"))

PgE == StatePage(Blob("x2", AlertsData(<<SrvE>>), <<AccMe>>))

PgD == StatePage(Blob("x1", AlertsData(<<SrvA, SrvD>>), <<AccMe>>))

PgD2 == StatePage(Blob("x2", AlertsData(<<SrvD2>>), <<AccMe>>))

FacadeClocks == {[hour |-> 23, weekday |-> 6]}

\* The pages the facade's manager is answered with.
FacadePages == {PgEmpty, PgB, PgE, PgD, PgD2, Pg500}

Next ==
    \/ \E kind \in {"core", "facade"}, email \in EmailArgs, signin \in SigninOutcomes,
          page \in SamplePages :
            Construct(kind, email, signin, page)
    \/ \E page \in SamplePages : Alerts(page)
    \/ CallerAppend
    \/ CallerPop
    \/ \E i \in 1..(MaxAlerts + 1), s \in CallerSets : CallerSet(i, s[1], s[2])
    \/ \E a \in CreateArgs, utcnow \in SampleClocks, resp \in Statuses :
            Create(a, utcnow, resp)
    \/ \E i \in 1..(MaxAlerts + 1), utcnow \in SampleClocks, resp \in Statuses :
            Update(i, utcnow, resp)
    \/ \E i \in 1..(MaxAlerts + 1), resp \in Statuses : Delete(i, resp)
    \/ \E page \in FacadePages : FAlerts(page)
    \/ \E i \in 1..MaxAlerts, s \in FacadeSets : FSet(i, s[1], s[2])
    \/ \E a \in FacadeCreates, utcnow \in FacadeClocks : FCreate(a, utcnow, 200)
    \/ \E i \in 1..MaxAlerts, utcnow \in SampleClocks, resp \in Statuses :
            FUpdate(i, utcnow, resp)
    \/ \E i \in 1..MaxAlerts, resp \in Statuses : FDelete(i, resp)
    \/ Return

Spec == Init /\ [][Next]_vars

\* ------------------------------------------------------------- the codec
\* The encoder and the decoder on their own: _create_alert_data on the
\* account and the fields of an input, then Alert.__init__ on the record the
\* service makes of the payload.
CodecAccounts == {Account_init(AccMe).val, Account_init(AccOther).val}

CodecInputs ==
    [query    : {Q1, QMax},
     sources  : {JNull, JArr(<<JInt(Sources_News)>>),
                 JArr(<<JInt(Sources_Blogs), JInt(Sources_Video)>>),
                 JArr(<<JInt(Sources_Automatic), JInt(Sources_Web)>>)},
     delivery : {JInt(DeliveryTypes_Email), JInt(DeliveryTypes_Feed)},
     freq     : {JInt(Frequencies_AsItHappens), JInt(Frequencies_OnceADay),
                 JInt(Frequencies_OnceAWeek)},
     vol      : {JInt(Volumes_AllResults), JInt(Volumes_BestResults)},
     lang     : {JStr("en"), JStr("fr")},
     region   : {JNull, JStr("US"), JStr("GB")}]

\* The alert ids the service assigns.
AlertIds == {JStr("a7")}

\* _create_alert_data(query, sources, delivery, freq, vol, lang, region) of a
\* manager whose account is account.
EncodeWith(account, a, utcnow, data) ==
    /\ Idle /\ ~mgr.constructed
    /\ call' = [NoCall EXCEPT !.op = "encode", !.exc = data.exc,
                              !.arg = [account |-> account, input |-> a],
                              !.clock = IF data.exc = "none"
                                        THEN ClockRead(a.freq, utcnow) ELSE JNull,
                              !.ret = IF data.exc = "none" THEN data.val ELSE JNull]
    /\ UNCHANGED <<mgr, objs, held, falerts>>

Encode(account, a, utcnow) ==
    EncodeWith(account, a, utcnow,
               create_alert_data(account, a.query, a.sources, a.delivery, a.freq,
                                 a.vol, a.lang, a.region, utcnow))

\* The alert record the service makes of a payload.
AlertRecord(alert_id, payload, account_id) ==
    JArr(<<JNull, alert_id, payload, account_id>>)

DecodeWith(record, alert) ==
    /\ call.op = "encode" /\ call.exc = "none"
    /\ call' = [call EXCEPT !.op = "decode", !.exc = alert.exc, !.page = record,
                            !.ret = alert.val]
    /\ UNCHANGED <<mgr, objs, held, falerts>>

\* Alert(alert_state) on the record of the payload just encoded.
Decode(alert_id) ==
    DecodeWith(AlertRecord(alert_id, call.ret, call.arg.account.account_id),
               Alert_init(AlertRecord(alert_id, call.ret, call.arg.account.account_id)))

ReencodeWith(utcnow, data) ==
    /\ call.op = "decode" /\ call.exc = "none"
    /\ call' = [call EXCEPT !.op = "reencode", !.exc = data.exc,
                            !.clock = IF data.exc = "none"
                                      THEN ClockRead(call.ret.frequency, utcnow)
                                      ELSE JNull,
                            !.ret = IF data.exc = "none" THEN data.val ELSE JNull]
    /\ UNCHANGED <<mgr, objs, held, falerts>>

\* The _create_alert_data of GoogleAlertsManager.update on the Alert just
\* decoded, unmodified.  The call's page stays the record it was decoded of.
Reencode(utcnow) ==
    ReencodeWith(utcnow,
                 create_alert_data(call.arg.account, call.ret.query, call.ret.sources,
                                   call.ret.delivery, call.ret.frequency,
                                   call.ret.volume, call.ret.language,
                                   call.ret.region, utcnow))

\* A feed alert record without a feed id.
SrvFeedNoId ==
    SrvAlert("a8", Q1, 0, JNull, JInt(Volumes_AllResults),
             JInt(DeliveryTypes_Feed), JStr(""), JNull,
             JInt(Frequencies_AsItHappens), JNull)

SeqsUpTo(S, n) == UNION {[1..k -> S] : k \in 0..n}

\* The alert records and the blobs the decoder is given: the alerts
\* container null, or holding up to MaxAlerts records.
CodecRecords == {SrvA, SrvB, SrvE, SrvBad, SrvFeedNoId}

CodecBlobs ==
    {Blob(x, container, accounts) :
        x \in {"x1", "x2"},
        container \in {JNull} \cup {JArr(<<JNull, JArr(records)>>) :
                                        records \in SeqsUpTo(CodecRecords, MaxAlerts)},
        accounts \in {<<AccMe>>, <<AccOther, AccMe>>}}

DecodeStateWith(window_state, ws) ==
    /\ Idle /\ ~mgr.constructed
    /\ call' = [NoCall EXCEPT !.op = "decode_state", !.exc = ws.exc,
                              !.page = window_state, !.ret = ws.val]
    /\ UNCHANGED <<mgr, objs, held, falerts>>

\* WindowState(window_state)
DecodeState(window_state) == DecodeStateWith(window_state, WindowState_init(window_state))

NextCodec ==
    \/ \E account \in CodecAccounts, a \in CodecInputs, utcnow \in Clocks :
            Encode(account, a, utcnow)
    \/ \E alert_id \in AlertIds : Decode(alert_id)
    \/ \E utcnow \in SampleClocks : Reencode(utcnow)
    \/ \E window_state \in CodecBlobs : DecodeState(window_state)
    \/ Return

SpecCodec == Init /\ [][NextCodec]_vars

\* ------------------------------------------------------------- properties
\* The alert payload of a request: the last element of its params.
PayloadOf(request) == request.params.v[Len(request.params.v)]

\* The blob of a page that assigns window.STATE, and its alert records.
BlobOf(page) ==
    page.body[CHOOSE i \in 1..Len(page.body) : page.body[i].assigns].rhs.value

RecordsOf(blob) == IF blob.v[2] = JNull THEN <<>> ELSE blob.v[2].v[2].v

CoreMutations == {"create", "update", "delete"}

FacadeMutations == {"fcreate", "fupdate", "fdelete"}

Mutations == CoreMutations \cup FacadeMutations

\* The Alert object a core update or delete call was given.
CallAlert == objs[call.arg]

\* C1: a create or update call that encodes delivery = Feed with a frequency
\* other than AsItHappens raises ValueError and sends no request.
C1_FeedNeedsAsItHappens ==
    /\ (call.op = "create"
        /\ call.arg.delivery = JInt(DeliveryTypes_Feed)
        /\ call.arg.freq \in {JInt(Frequencies_OnceADay), JInt(Frequencies_OnceAWeek)})
       => (call.exc = "ValueError" /\ call.posts = <<>>)
    /\ (call.op = "update"
        /\ CallAlert.delivery = JInt(DeliveryTypes_Feed)
        /\ CallAlert.frequency \in {JInt(Frequencies_OnceADay), JInt(Frequencies_OnceAWeek)})
       => (call.exc = "ValueError" /\ call.posts = <<>>)

C3_AccountOfWindowState ==
    mgr.constructed
    => /\ JStr(mgr.email) \in DOMAIN mgr.window_state.accounts
       /\ mgr.account = mgr.window_state.accounts[JStr(mgr.email)]

\* Whether a list of sources holds the Automatic code.
HasAutomatic(sources) ==
    /\ sources # JNull
    /\ \E i \in 1..Len(sources.v) : sources.v[i] = JInt(Sources_Automatic)

\* C4: a create or update whose sources list is not null and holds Automatic
\* raises ValueError and sends nothing; a null sources list is sent as null
\* and is not what a ValueError is raised for; the payloads of the facade's
\* create and update never hold Automatic, and hold null for Everything.
C4_AutomaticRejected ==
    /\ (call.op = "create" /\ HasAutomatic(call.arg.sources))
       => (call.exc = "ValueError" /\ call.posts = <<>>)
    /\ (call.op = "update" /\ HasAutomatic(CallAlert.sources))
       => (call.exc = "ValueError" /\ call.posts = <<>>)
    /\ (call.op = "create" /\ call.arg.sources = JNull
        /\ ~(call.arg.delivery = JInt(DeliveryTypes_Feed)
             /\ call.arg.freq \in {JInt(Frequencies_OnceADay),
                                   JInt(Frequencies_OnceAWeek)}))
       => (call.exc # "ValueError" /\ Len(call.posts) = 1
           /\ PayloadOf(call.posts[1]).v[5] = JNull)
    /\ (call.op = "update" /\ CallAlert.sources = JNull)
       => (call.exc # "ValueError" /\ Len(call.posts) = 1
           /\ PayloadOf(call.posts[1]).v[5] = JNull)
    /\ call.op \in {"fcreate", "fupdate"}
       => /\ call.exc # "ValueError"
          /\ Len(call.posts) = 1
          /\ ~HasAutomatic(PayloadOf(call.posts[1]).v[5])
    /\ (call.op = "fcreate" /\ call.arg.type = "Everything")
       => PayloadOf(call.posts[1]).v[5] = JNull
    /\ (call.op = "fupdate" /\ call.arg.alert.type = "Everything")
       => PayloadOf(call.posts[1]).v[5] = JNull

\* An update of an alert the caller gave the sources [Automatic] is refused.
C4_Witness ==
    /\ call.op = "update"
    /\ HasAutomatic(CallAlert.sources)
    /\ call.exc = "ValueError"
    /\ call.posts = <<>>

\* C5: no request of the facade carries a query longer than QUERY_MAXLEN: a
\* longer query is refused with ValueError before anything is sent.
C5_QueryBound ==
    call.op \in {"fcreate", "fupdate"}
    => /\ \A i \in 1..Len(call.posts) :
            PayloadOf(call.posts[i]).v[4].v[2].len <= QUERY_MAXLEN
       /\ (call.op = "fcreate" /\ call.arg.query.len > QUERY_MAXLEN)
          => (call.exc = "ValueError" /\ call.posts = <<>>)

\* C6: decoding the record of an encoded input gives an Alert whose query,
\* sources, volume, delivery, frequency and language are the input's.
C6_RoundTrip ==
    call.op = "decode"
    => /\ call.exc = "none"
       /\ call.ret.query = call.arg.input.query
       /\ call.ret.sources = call.arg.input.sources
       /\ call.ret.volume = call.arg.input.vol
       /\ call.ret.delivery = call.arg.input.delivery
       /\ call.ret.frequency = call.arg.input.freq
       /\ call.ret.language = call.arg.input.lang

\* A weekly feed-less input of null sources, decoded.
C6_Witness ==
    /\ call.op = "decode"
    /\ call.arg.input.sources = JNull
    /\ call.arg.input.freq = JInt(Frequencies_OnceAWeek)
    /\ call.ret.sources = JNull
    /\ call.ret.language = JStr("fr")

\* C7: a listing of a page whose alerts carry a code the registry does not
\* know returns.
C7_UnknownCodesListed ==
    (call.op \in {"alerts", "falerts"} /\ call.page \in {PgD, PgD2})
    => call.exc = "none"

\* The pages whose state is structurally wrong: no script assigns
\* window.STATE, a blob of the wrong arity or type, a malformed account or
\* alert record.
StructurallyWrong == {PgNoScript, PgShort, PgNoAccounts, PgBadAccount, PgBadAlert}

\* C8: a construction or a listing answered with a structurally wrong page
\* raises ParseFailureError.
C8_ParseFailure ==
    (call.op \in {"construct", "alerts", "falerts"} /\ call.page \in StructurallyWrong)
    => call.exc = "ParseFailureError"

\* C9: every listing sends exactly one GET; the alerts it returns are, in
\* order, the alert records of the page that GET was answered with; and the
\* manager's stored list is, after the caller appended to or removed from
\* the list it was handed, what it was before.
C9_ListingFresh ==
    /\ call.op \in {"alerts", "falerts"} => call.gets = 1
    /\ (call.op = "alerts" /\ call.exc = "none")
       => /\ Len(HeldItems(held, mgr)) = Len(RecordsOf(BlobOf(call.page)))
          /\ \A i \in 1..Len(HeldItems(held, mgr)) :
                /\ objs[HeldItems(held, mgr)[i]].alert_id
                        = RecordsOf(BlobOf(call.page))[i].v[2]
                /\ objs[HeldItems(held, mgr)[i]].query
                        = RecordsOf(BlobOf(call.page))[i].v[3].v[4].v[2]
    /\ (call.op = "falerts" /\ call.exc = "none")
       => /\ Len(falerts) = Len(RecordsOf(BlobOf(call.page)))
          /\ \A i \in 1..Len(falerts) :
                /\ falerts[i].s = RecordsOf(BlobOf(call.page))[i].v[2]
                /\ falerts[i].query = RecordsOf(BlobOf(call.page))[i].v[3].v[4].v[2]
    /\ call.op \in {"caller_append", "caller_pop"}
       => mgr.window_state.alerts = call.arg

\* The caller emptied the list it was handed; the manager's still holds one.
C9_Witness ==
    /\ call.op = "caller_pop"
    /\ HeldItems(held, mgr) = <<>>
    /\ Len(mgr.window_state.alerts) = 1

\* The positional shape of an alert payload.
PayloadShape(p) ==
    /\ p.t = "arr" /\ Len(p.v) = 7
    /\ p.v[1] = JNull /\ p.v[2] = JNull /\ p.v[3] = JNull
    /\ p.v[4].t = "arr" /\ Len(p.v[4].v) = 9
    /\ p.v[4].v[4].t = "arr" /\ Len(p.v[4].v[4].v) = 3
    /\ p.v[7].t = "arr" /\ Len(p.v[7].v) = 1
    /\ p.v[7].v[1].t = "arr" /\ Len(p.v[7].v[1].v) = 15

\* The Alert object an update or delete call was given, as it was when the
\* call was made.
MutatedAlert == IF call.op \in CoreMutations THEN CallAlert ELSE call.arg.before

\* C10: a create, update or delete call sends one POST, and none only when it
\* raises ValueError before sending; create posts [null, payload] to
\* /alerts/create, update [null, alert id, payload] to /alerts/modify, delete
\* [null, alert id] to /alerts/delete, the payloads of one shape.
C10_Envelopes ==
    call.op \in Mutations
    => /\ Len(call.posts) <= 1
       /\ call.posts = <<>> => call.exc = "ValueError"
       /\ \A i \in 1..Len(call.posts) :
            LET request == call.posts[i]
                params  == request.params.v
            IN  /\ request.params.t = "arr"
                /\ params[1] = JNull
                /\ call.op \in {"create", "fcreate"}
                   => /\ request.path = "/alerts/create"
                      /\ Len(params) = 2
                      /\ PayloadShape(params[2])
                /\ call.op \in {"update", "fupdate"}
                   => /\ request.path = "/alerts/modify"
                      /\ Len(params) = 3
                      /\ params[2] = MutatedAlert.alert_id
                      /\ PayloadShape(params[3])
                /\ call.op \in {"delete", "fdelete"}
                   => /\ request.path = "/alerts/delete"
                      /\ Len(params) = 2
                      /\ params[2] = MutatedAlert.alert_id

\* An update of the alert a1 was sent.
C10_Witness ==
    /\ call.op = "update"
    /\ Len(call.posts) = 1
    /\ call.posts[1].params.v[2] = JStr("a1")

\* The delivery block and the query info of an encoded payload.
BlockOf(payload) == payload.v[7].v[1].v[4]

QueryInfoOf(payload) == payload.v[4]

\* The weekday the service is sent for each weekday of the calendar
\* (Monday = 0 ... Sunday = 6; the service counts from Sunday = 0).
ServiceWeekday == <<2, 3, 4, 5, 6, 0>>

\* C11: the weekday field of an encoded weekly alert is 1 for Monday (0), 2
\* for Tuesday, ..., 6 for Saturday (5) and 0 for Sunday (6): (w + 1) mod 7,
\* a number of 0..6.
C11_WeekdayShift ==
    (call.op = "encode" /\ call.exc = "none"
     /\ call.arg.input.freq = JInt(Frequencies_OnceAWeek))
    => /\ BlockOf(call.ret).v[4].t = "int"
       /\ BlockOf(call.ret).v[4].v \in 0..6
       /\ BlockOf(call.ret).v[4].v =
            (IF call.clock.weekday = 0 THEN 1 ELSE ServiceWeekday[call.clock.weekday])

\* A weekly alert encoded on a Sunday.
C11_Witness ==
    /\ call.op = "encode"
    /\ call.exc = "none"
    /\ call.arg.input.freq = JInt(Frequencies_OnceAWeek)
    /\ call.clock.weekday = 6
    /\ BlockOf(call.ret).v[4] = JInt(0)

\* C12: the delivery block of an encoded payload is null for AsItHappens,
\* [null, null, hour] for OnceADay and [null, null, hour, weekday] for
\* OnceAWeek, hour the hour read of the clock, whatever the other fields.
C12_BlockByFrequency ==
    (call.op = "encode" /\ call.exc = "none")
    => /\ call.arg.input.freq = JInt(Frequencies_AsItHappens)
          => BlockOf(call.ret) = JNull
       /\ call.arg.input.freq = JInt(Frequencies_OnceADay)
          => /\ BlockOf(call.ret) = JArr(<<JNull, JNull, JInt(call.clock.hour)>>)
             /\ call.clock.hour \in 0..23
       /\ call.arg.input.freq = JInt(Frequencies_OnceAWeek)
          => /\ BlockOf(call.ret).t = "arr"
             /\ Len(BlockOf(call.ret).v) = 4
             /\ SubSeq(BlockOf(call.ret).v, 1, 3)
                    = <<JNull, JNull, JInt(call.clock.hour)>>
             /\ call.clock.hour \in 0..23
       /\ BlockOf(call.ret) # JNull /\ Len(BlockOf(call.ret).v) > 3
          => call.arg.input.freq = JInt(Frequencies_OnceAWeek)

\* A daily alert encoded at 23 h: three elements, no weekday.
C12_Witness ==
    /\ call.op = "encode"
    /\ call.exc = "none"
    /\ call.arg.input.freq = JInt(Frequencies_OnceADay)
    /\ BlockOf(call.ret) = JArr(<<JNull, JNull, JInt(23)>>)

\* C15: the region flag of an encoded payload is 0 when the region argument
\* is null and 1 otherwise, the default region given explicitly included;
\* the region field is the argument, or the default "US" when it is null.
C15_RegionFlag ==
    (call.op = "encode" /\ call.exc = "none")
    => /\ QueryInfoOf(call.ret).v[8] =
            (IF call.arg.input.region = JNull THEN JInt(0) ELSE JInt(1))
       /\ QueryInfoOf(call.ret).v[4].v[3] =
            (IF call.arg.input.region = JNull THEN JStr("US")
             ELSE call.arg.input.region)

\* The default region given explicitly: flag 1.
C15_Witness ==
    /\ call.op = "encode"
    /\ call.exc = "none"
    /\ call.arg.input.region = JStr("US")
    /\ QueryInfoOf(call.ret).v[8] = JInt(1)

\* The account records of a blob.
AccountRecordsOf(blob) == blob.v[3].v[7].v

\* C13: a blob whose alerts container is null decodes without error to no
\* alerts; a container decodes to one Alert per record, in the records'
\* order; either way the token and the accounts are those of the blob.
C13_NullContainer ==
    call.op = "decode_state"
    => /\ call.page.v[2] = JNull
          => (call.exc = "none" /\ call.ret.alerts = <<>>)
       /\ call.exc = "none"
          => /\ Len(call.ret.alerts) = Len(RecordsOf(call.page))
             /\ \A i \in 1..Len(call.ret.alerts) :
                    call.ret.alerts[i].alert_id = RecordsOf(call.page)[i].v[2]
             /\ call.ret.x = call.page.v[4]
             /\ DOMAIN call.ret.accounts
                    = {AccountRecordsOf(call.page)[i].v[3] :
                            i \in 1..Len(AccountRecordsOf(call.page))}
             /\ \A i \in 1..Len(AccountRecordsOf(call.page)) :
                    call.ret.accounts[AccountRecordsOf(call.page)[i].v[3]].account_id
                        = AccountRecordsOf(call.page)[i].v[15]

\* A null container decoded, with the token and both accounts of its blob.
C13_Witness ==
    /\ call.op = "decode_state"
    /\ call.page.v[2] = JNull
    /\ call.exc = "none"
    /\ call.ret.alerts = <<>>
    /\ call.ret.x = JStr("x2")
    /\ Cardinality(DOMAIN call.ret.accounts) = 2

\* What C14 says of one decoded alert.
FeedFieldsRight(alert) ==
    /\ alert.delivery = JInt(DeliveryTypes_Feed)
       => /\ alert.feed_id # JNull
          /\ alert.feed_url = JStr("https://www.google.com/alerts/feeds/"
                                   \o alert.account_id.v \o "/" \o alert.feed_id.v)
    /\ (alert.account_id = JStr("A1") /\ alert.feed_id = JStr("F2"))
       => alert.feed_url = JStr("https://www.google.com/alerts/feeds/A1/F2")
    /\ alert.delivery # JInt(DeliveryTypes_Feed)
       => (alert.feed_id = JNull /\ alert.feed_url = JNull)

\* C14: every decoded alert of delivery Feed has a feed id and the feed url
\* https://www.google.com/alerts/feeds/<account id>/<feed id>; every other
\* decoded alert has neither.
C14_FeedUrl ==
    /\ (call.op = "decode_state" /\ call.exc = "none")
       => \A i \in 1..Len(call.ret.alerts) : FeedFieldsRight(call.ret.alerts[i])
    /\ (call.op = "decode" /\ call.exc = "none") => FeedFieldsRight(call.ret)

\* An e-mail alert and the feed F2 of account A1 decoded of one blob.
C14_Witness ==
    /\ call.op = "decode_state"
    /\ call.exc = "none"
    /\ Len(call.ret.alerts) = 2
    /\ call.ret.alerts[1].feed_url = JNull
    /\ call.ret.alerts[1].delivery = JInt(DeliveryTypes_Email)
    /\ call.ret.alerts[2].feed_url = JStr("https://www.google.com/alerts/feeds/A1/F2")

\* C20: the payload update encodes of an alert decoded of an encoded payload
\* carries the region flag of that payload.
C20_RegionFlagKept ==
    (call.op = "reencode" /\ call.exc = "none")
    => QueryInfoOf(call.ret).v[8] = QueryInfoOf(call.page.v[3]).v[8]

\* What C16 says of a step.
StagedStep ==
    /\ call'.op = "set"
       => /\ objs' = objs /\ mgr' = mgr
          /\ call'.posts = <<>> /\ call'.gets = 0
          /\ call'.exc # "none" => falerts' = falerts
          /\ call'.exc = "none"
             => /\ \A j \in 1..Len(falerts) : j # call'.arg.i => falerts'[j] = falerts[j]
                /\ falerts'[call'.arg.i].new_alert = falerts[call'.arg.i].new_alert
    /\ call'.op = "fupdate"
       => /\ objs'[call'.arg.alert.new_alert].query = call'.arg.alert.query
          /\ objs'[call'.arg.alert.new_alert].delivery
                = JInt(DELIVER_TYPES[call'.arg.alert.deliver])
          /\ objs'[call'.arg.alert.new_alert].volume
                = JInt(ALERT_VOLS[call'.arg.alert.vol])
          /\ objs'[call'.arg.alert.new_alert].frequency
                = JInt(ALERT_FREQS[call'.arg.alert.freq])
          /\ Len(call'.posts) = 1
          /\ QueryInfoOf(PayloadOf(call'.posts[1])).v[2] = call'.arg.alert.query
    /\ (mgr.constructed /\ mgr.kind = "facade" /\ objs' # objs)
       => call'.op \in {"falerts", "fupdate"}

\* C16: an assignment to a facade Alert sends nothing and leaves the decoded
\* alerts and the manager as they were, and leaves the facade alerts too when
\* the setter raises; of the facade's operations only a listing and update
\* change a decoded alert, and update gives it the facade Alert's values and
\* sends them.
C16_Staged == [][StagedStep]_vars

\* A query assigned to a facade Alert and not to the alert it was made of.
C16_Witness ==
    /\ call.op = "set"
    /\ call.exc = "none"
    /\ call.arg.attr = "query"
    /\ falerts[call.arg.i].query = [QAscii EXCEPT !.enc = "unicode"]
    /\ objs[falerts[call.arg.i].new_alert].query = Q1

\* The pairs of delivery and frequency the service takes.
ValidPairs ==
    {<<DeliveryTypes_Feed, Frequencies_AsItHappens>>,
     <<DeliveryTypes_Email, Frequencies_OnceADay>>,
     <<DeliveryTypes_Email, Frequencies_OnceAWeek>>,
     <<DeliveryTypes_Email, Frequencies_AsItHappens>>}

\* C17: no request of the facade's create and update carries a delivery and
\* a frequency outside ValidPairs.
C17_ValidPairsOnly ==
    call.op \in {"fcreate", "fupdate"}
    => \A i \in 1..Len(call.posts) :
            <<PayloadOf(call.posts[i]).v[7].v[1].v[2].v,
              PayloadOf(call.posts[i]).v[7].v[1].v[5].v>> \in ValidPairs

\* What C18 says of a step.
TokenStep ==
    /\ call'.op \in Mutations
       => /\ mgr' = mgr
          /\ \A i \in 1..Len(call'.posts) : call'.posts[i].x = mgr.window_state.x
    /\ call'.op \in CoreMutations => objs' = objs
    /\ (call'.op \in {"alerts", "falerts"} /\ call'.exc = "none")
       => mgr'.window_state.x = BlobOf(call'.page).v[4]
    /\ (mgr.constructed /\ mgr'.window_state.x # mgr.window_state.x)
       => /\ call'.op \in {"alerts", "falerts"}
          /\ mgr'.window_state.x = BlobOf(call'.page).v[4]
    /\ (~mgr.constructed /\ mgr'.constructed)
       => /\ call'.op = "construct"
          /\ mgr'.window_state.x = BlobOf(call'.page).v[4]

\* C18: create, update and delete send the token of the manager's window
\* state and change neither the window state nor the account (nor, in
\* GoogleAlertsManager, an alert); the token of the window state is the one
\* of the blob decoded last, at construction or in a listing.
C18_TokenStable == [][TokenStep]_vars

\* A delete that carries the token of the second of two listings.
C18_Witness ==
    /\ call.op = "delete"
    /\ Len(call.posts) = 1
    /\ call.posts[1].x = JStr("x2")
    /\ objs[call.arg].alert_id = JStr("a1")

\* C19: a facade update of an alert decoded of a sample record, listed and
\* not changed, sends the sources, volume, delivery and frequency decoded.
C19_UnchangedRoundTrip ==
    (/\ call.op = "fupdate"
     /\ call.arg.before \in {Alert_init(SrvB).val, Alert_init(SrvE).val,
                             Alert_init(SrvA).val}
     /\ call.arg.alert = FacadeAlert(mgr.email, call.arg.before, call.arg.alert.new_alert))
    => /\ Len(call.posts) = 1
       /\ PayloadOf(call.posts[1]).v[5] = call.arg.before.sources
       /\ PayloadOf(call.posts[1]).v[6] = call.arg.before.volume
       /\ PayloadOf(call.posts[1]).v[7].v[1].v[2] = call.arg.before.delivery
       /\ PayloadOf(call.posts[1]).v[7].v[1].v[5] = call.arg.before.frequency

====
